---------------------------- MODULE Spec2Model ----------------------------
(***************************************************************************)
(* SMS scheduling backend: the sms_tasks table, the POST /api/schedules    *)
(* and POST /api/contacts handlers, getDashboardStats, and the node-cron   *)
(* background worker that moves due tasks from pending to sent or failed.  *)
(*                                                                         *)
(* Time is counted in instants; SubSec instants make one second.  The      *)
(* timestamp columns hold whole seconds (integer, mode "timestamp"), so a  *)
(* Date is floored to its second when it is written or compared.           *)
(***************************************************************************)
EXTENDS Integers, Sequences, FiniteSets, TLC

\* ------------------------------------------------------------------ bounds
\* instants per second (resolution of the wall clock below one second)
SubSec == 2
\* last instant of the wall clock
MaxTime == 3
\* rows the sms_tasks table may hold
MaxTasks == 2
\* callback activations of the worker that may be suspended at once
MaxOverlap == 2
\* the write counter of a task saturates here
WriteCap == 2
\* rows the legacy messages table may hold
MaxMessages == 2
\* whole seconds that stand for the five minutes a chat message waits
DelaySeconds == 1

\* ------------------------------------------------------- program constants
\* if (wordCount > 20)
WordLimit == 20

NULL == "NULL"
OK == "ok"

\* messages of the errors a store call may throw (never empty)
FaultReasons == {"database is locked"}

\* phone numbers a client may post: one that passes the format test, one that does not
ValidPhones == {"+15550100000"}
InvalidPhones == {"12345"}

\* a phone cell of an uploaded file that needs trimming, and the names a
\* request or a file row may carry
PaddedPhone == "+15550100000 "
\* a second number that passes the format test
OtherPhone == "+15550100001"
Names == {"Ann"}

\* randomUUID(): the ids given to contact rows, in the order of their creation
ContactIds == <<"c1", "c2", "c3", "c4">>

\* ids a client may name: an existing row's id or one that resolves to nothing
UnknownContactId == "c9"
devices == {"d1"}
UnknownDeviceId == "d9"

\* --------------------------------------------------------- message content
\* A content string is given by its shape: lead whitespace characters, then
\* words words with gap whitespace characters between neighbours, then trail
\* whitespace characters.
Text(lead, words, gap, trail) == [lead |-> lead, words |-> words, gap |-> gap, trail |-> trail]

\* the empty string (also what an absent content tests as)
EmptyText == Text(0, 0, 0, 0)

\* 20 words, two blanks between words, blanks at both ends; and 21 words alike
Padded20 == Text(1, WordLimit, 2, 1)
Padded21 == Text(2, WordLimit + 1, 2, 1)
Contents == {Padded20, Padded21}

\* String.prototype.trim
Trim(s) == [s EXCEPT !.lead = 0, !.trail = 0]

\* s.split(/\s+/).length: the pieces between whitespace runs, an empty piece
\* before a leading run and after a trailing run included
SplitLength(s) ==
    IF s.words = 0
    THEN (IF s.lead + s.trail > 0 THEN 2 ELSE 1)
    ELSE s.words + (IF s.lead > 0 THEN 1 ELSE 0) + (IF s.trail > 0 THEN 1 ELSE 0)

\* content.trim().split(/\s+/).length
wordCount(content) == SplitLength(Trim(content))

\* variant of the limit test: off by one
ExceedsWordLimit_OffByOne(content) == wordCount(content) > WordLimit + 1

\* wordCount > 20
ExceedsWordLimit(content) == wordCount(content) > WordLimit

\* ------------------------------------------------------------- timestamps
\* integer("scheduled_at", { mode: "timestamp" }): a Date is stored, and bound
\* into a comparison, as its whole second
ToSeconds(t) == t \div SubSec

\* the Date a stored second reads back as
FromSeconds(s) == s * SubSec


\* ------------------------------------------------------------------ state
VARIABLES
    now,        \* the wall clock, in instants (what new Date() reads)
    smsTasks,   \* the sms_tasks table: its rows in insertion order
    contacts,   \* the contacts table: a set of rows
    running,    \* activations of the cron callback that are suspended at an await
    res,        \* the last HTTP response sent
    requested,  \* per task id, the scheduledAt instant its request named (history)
    writes,     \* per task id, the updateSmsTaskStatus calls that wrote its row (history)
    messages,   \* the legacy messages table: its rows in insertion order
    count       \* what the last call of deliverScheduledMessages returned

\* the state of the legacy chat
legacy == <<messages, count>>

vars == <<now, smsTasks, contacts, running, res, requested, writes, legacy>>

Outcomes == {OK} \cup FaultReasons

\* ------------------------------------------------------------- the store
\* id: text("id").primaryKey().$defaultFn(() => randomUUID()): a value no row has
NewTaskId(tbl) == Len(tbl) + 1

\* variant of the schema: contact_id declared without references(contacts.id)
ForeignKeysHold_NoContact(task, cts) == task.deviceId \in devices \cup {NULL}

\* the foreign keys of sms_tasks: contact_id is required and references
\* contacts.id, device_id may be absent or references devices.id
ForeignKeysHold(task, cts) ==
    /\ task.contactId \in {c.id : c \in cts}
    /\ task.deviceId \in devices \cup {NULL}

\* variant of the insert: the row is stored with a status of its own
createSmsTask_Scheduled(tbl, task) ==
    Append(tbl, [id |-> NewTaskId(tbl),
                 deviceId |-> task.deviceId,
                 contactId |-> task.contactId,
                 content |-> task.content,
                 scheduledAt |-> ToSeconds(task.scheduledAt),
                 status |-> "scheduled",
                 error |-> NULL,
                 createdAt |-> ToSeconds(now)])

\* variant of the insert: the row is stored as already sent
createSmsTask_Sent(tbl, task) ==
    Append(tbl, [id |-> NewTaskId(tbl),
                 deviceId |-> task.deviceId,
                 contactId |-> task.contactId,
                 content |-> task.content,
                 scheduledAt |-> ToSeconds(task.scheduledAt),
                 status |-> "sent",
                 error |-> NULL,
                 createdAt |-> ToSeconds(now)])

\* db.insert(smsTasks).values(task).returning().get(): error is not among the
\* values and has no default; created_at defaults to CURRENT_TIMESTAMP
createSmsTask(tbl, task) ==
    Append(tbl, [id |-> NewTaskId(tbl),
                 deviceId |-> task.deviceId,
                 contactId |-> task.contactId,
                 content |-> task.content,
                 scheduledAt |-> ToSeconds(task.scheduledAt),
                 status |-> task.status,
                 error |-> NULL,
                 createdAt |-> ToSeconds(now)])

\* error || null
OrNull(error) == IF error = "" \/ error = NULL THEN NULL ELSE error

\* variants of the selection predicate: the status test dropped, the time
\* test dropped, lte for lt, gt for lt
IsDue_AnyStatus(row, t) == row.scheduledAt < ToSeconds(t)
IsDue_AnyTime(row, t) == row.status = "pending"
IsDue_Lte(row, t) == row.status = "pending" /\ row.scheduledAt <= ToSeconds(t)
IsDue_Gt(row, t) == row.status = "pending" /\ row.scheduledAt > ToSeconds(t)

\* where(and(eq(status, "pending"), lt(scheduledAt, now)))
IsDue(row, t) == row.status = "pending" /\ row.scheduledAt < ToSeconds(t)

getPendingSmsTasks(tbl, t) == SelectSeq(tbl, LAMBDA row : IsDue(row, t))

\* variants of the update: set({ status }) alone, set({ error }) alone, and
\* "delivered" written for "sent" as the messages table has it
updateSmsTaskStatus_StatusOnly(tbl, id, status, error) ==
    [k \in 1..Len(tbl) |->
        IF tbl[k].id = id THEN [tbl[k] EXCEPT !.status = status] ELSE tbl[k]]
updateSmsTaskStatus_ErrorOnly(tbl, id, status, error) ==
    [k \in 1..Len(tbl) |->
        IF tbl[k].id = id THEN [tbl[k] EXCEPT !.error = OrNull(error)] ELSE tbl[k]]
updateSmsTaskStatus_Delivered(tbl, id, status, error) ==
    [k \in 1..Len(tbl) |->
        IF tbl[k].id = id
        THEN [tbl[k] EXCEPT !.status = IF status = "sent" THEN "delivered" ELSE status,
                            !.error = OrNull(error)]
        ELSE tbl[k]]

\* variant of the update: the row is removed once it has been handled
updateSmsTaskStatus_Delete(tbl, id, status, error) ==
    SelectSeq(tbl, LAMBDA row : row.id # id)

\* variant of the update: no where clause, every row is written
updateSmsTaskStatus_NoWhere(tbl, id, status, error) ==
    [k \in 1..Len(tbl) |-> [tbl[k] EXCEPT !.status = status, !.error = OrNull(error)]]

\* variant of the update: the where clause compares a column no id is found in,
\* no row matches
updateSmsTaskStatus_NoMatch(tbl, id, status, error) == tbl

\* variant of the update: the where clause names the pending rows, not the id
updateSmsTaskStatus_AllPending(tbl, id, status, error) ==
    [k \in 1..Len(tbl) |->
        IF tbl[k].status = "pending"
        THEN [tbl[k] EXCEPT !.status = status, !.error = OrNull(error)]
        ELSE tbl[k]]

\* db.update(smsTasks).set({ status, error: error || null }).where(eq(id, id))
updateSmsTaskStatus(tbl, id, status, error) ==
    [k \in 1..Len(tbl) |->
        IF tbl[k].id = id
        THEN [tbl[k] EXCEPT !.status = status, !.error = OrNull(error)]
        ELSE tbl[k]]

\* rows of tbl created in second sec or earlier, latest second first
RECURSIVE DescFrom(_, _)
DescFrom(tbl, sec) ==
    IF sec < 0 THEN << >>
    ELSE SelectSeq(tbl, LAMBDA row : row.createdAt = sec) \o DescFrom(tbl, sec - 1)

\* db.select({ task, contact, device }).from(smsTasks).leftJoin(contacts, ...)
\* .leftJoin(devices, ...).orderBy(desc(smsTasks.createdAt)).all(), then
\* { ...r.task, contact: r.contact, device: r.device }; the joined row is kept
\* as a set, empty where the join finds none; rows of one second keep table order
getAllSmsTasks(tbl, cts) ==
    LET sorted == DescFrom(tbl, ToSeconds(MaxTime)) IN
    [k \in 1..Len(sorted) |->
        [task |-> sorted[k],
         contact |-> {c \in cts : c.id = sorted[k].contactId},
         device |-> {d \in devices : d = sorted[k].deviceId}]]

\* variant of a read: rows that are no longer pending are cleared away once read
AfterSelect_Purge(tbl) == SelectSeq(tbl, LAMBDA row : row.status = "pending")

\* the table a storage function leaves behind when all its statements are
\* selects (getDashboardStats, getAllSmsTasks)
AfterSelect(tbl) == tbl

CountStatus(tbl, status) == Cardinality({k \in 1..Len(tbl) : tbl[k].status = status})

\* variant of the statistics: pending taken as what is left after the sent
getDashboardStats_PendingByDifference(tbl, cts) ==
    [totalContacts |-> Cardinality(cts),
     totalSmsScheduled |-> Len(tbl),
     totalSent |-> CountStatus(tbl, "sent"),
     totalFailed |-> CountStatus(tbl, "failed"),
     totalPending |-> Len(tbl) - CountStatus(tbl, "sent")]

getDashboardStats(tbl, cts) ==
    [totalContacts |-> Cardinality(cts),
     totalSmsScheduled |-> Len(tbl),
     totalSent |-> CountStatus(tbl, "sent"),
     totalFailed |-> CountStatus(tbl, "failed"),
     totalPending |-> CountStatus(tbl, "pending")]

\* /^\+?[\d\s-]{10,}$/.test(phoneNumber)
PhoneFormatOk(phone) == phone \in ValidPhones \cup {OtherPhone}

\* String(cell).trim() of a phone cell
TrimPhone(cell) == IF cell = PaddedPhone THEN "+15550100000" ELSE cell

\* db.select().from(contacts).where(eq(contacts.phoneNumber, phone)).get()
getContactByPhone(cts, phone) == {c \in cts : c.phoneNumber = phone}

\* variant of the schema: phone_number declared without unique()
Conflicts_NotUnique(cts, phone) == FALSE

\* phone_number text notNull unique: an insert of a phone a row already has conflicts
Conflicts(cts, phone) == \E c \in cts : c.phoneNumber = phone

\* the row an insert adds: id from $defaultFn, name null when the request has none
NewContact(cts, contact) ==
    [id |-> ContactIds[Cardinality(cts) + 1], phoneNumber |-> contact.phoneNumber,
     name |-> contact.name]

\* db.insert(contacts).values(contact).returning().get(); throws on a conflict
createContact(cts, contact) == cts \cup {NewContact(cts, contact)}

\* createContacts: for each row in order, insert ... onConflictDoNothing();
\* a row that conflicts is skipped, a row whose insert throws is ignored;
\* gives the table and the number of rows pushed to results
RECURSIVE createContacts(_, _, _)
createContacts(cts, contactsList, outs) ==
    IF contactsList = << >> THEN [cts |-> cts, created |-> 0]
    ELSE LET c == Head(contactsList)
             skip == outs[1] # OK \/ Conflicts(cts, c.phoneNumber)
             rest == createContacts(IF skip THEN cts ELSE createContact(cts, c),
                                    Tail(contactsList), Tail(outs))
         IN  [cts |-> rest.cts, created |-> rest.created + (IF skip THEN 0 ELSE 1)]

\* --------------------------------------------------------- the event loop
\* The store runs on better-sqlite3: every storage function finishes its query
\* before it returns, so the promise a caller awaits is already settled.
StoreCallsAreSynchronous_Deferred == FALSE
StoreCallsAreSynchronous == TRUE

\* A callback suspended at an await of a settled promise continues from the
\* microtask queue, and the queue is drained before the next timer or request
\* callback is dispatched.  With a store that answered later, the callback
\* would wait for I/O and other callbacks could start meanwhile.
MacrotaskMayStart == IF StoreCallsAreSynchronous THEN running = << >> ELSE TRUE

Remove(seq, k) == SubSeq(seq, 1, k - 1) \o SubSeq(seq, k + 1, Len(seq))

Bump(n) == IF n < WriteCap THEN n + 1 ELSE n

Respond(route, status, body) == [route |-> route, status |-> status, body |-> body]

\* ------------------------------------------------------------------- Init
Init ==
    /\ now = 0
    /\ smsTasks = << >>
    /\ contacts = {}
    /\ running = << >>
    /\ res = Respond("none", 0, NULL)
    /\ requested = << >>
    /\ writes = << >>
    /\ messages = << >>
    /\ count = 0

\* the wall clock moves on, whatever the process is doing
Advance ==
    /\ now < MaxTime
    /\ now' = now + 1
    /\ UNCHANGED <<smsTasks, contacts, running, res, requested, writes, legacy>>

\* ------------------------------------------------------- request handlers
\* app.post("/api/contacts")
PostContacts(phoneNumber, name) ==
    /\ MacrotaskMayStart
    /\ IF phoneNumber = NULL
       THEN /\ res' = Respond("POST /api/contacts", 400, "Phone number required")
            /\ UNCHANGED contacts
       ELSE IF ~PhoneFormatOk(phoneNumber)
       THEN /\ res' = Respond("POST /api/contacts", 400, "Invalid phone number format")
            /\ UNCHANGED contacts
       ELSE IF getContactByPhone(contacts, phoneNumber) # {}
       THEN /\ res' = Respond("POST /api/contacts", 200,
                                CHOOSE c \in getContactByPhone(contacts, phoneNumber) : TRUE)
            /\ UNCHANGED contacts
       ELSE \E outcome \in Outcomes :
              LET contact == [phoneNumber |-> phoneNumber, name |-> name] IN
              IF outcome = OK /\ ~Conflicts(contacts, phoneNumber)
              THEN /\ contacts' = createContact(contacts, contact)
                   /\ res' = Respond("POST /api/contacts", 200, NewContact(contacts, contact))
              ELSE /\ res' = Respond("POST /api/contacts", 500, "Failed to create contact")
                   /\ UNCHANGED contacts
    /\ UNCHANGED <<now, smsTasks, running, requested, writes, legacy>>

\* the rows a parsed file gives to the upload handler: phoneNumber trimmed,
\* rows whose phone fails the format test dropped
ContactsToCreate(data) ==
    SelectSeq([k \in 1..Len(data) |->
                  [phoneNumber |-> TrimPhone(data[k].phoneNumber), name |-> data[k].name]],
              LAMBDA c : PhoneFormatOk(c.phoneNumber))

\* app.post("/api/contacts/upload"); the file is absent ("none"), of another
\* format ("unsupported"), one the parser throws on ("unreadable"), or a sheet
PostContactsUpload(file) ==
    /\ MacrotaskMayStart
    /\ IF file.kind = "none"
       THEN /\ res' = Respond("POST /api/contacts/upload", 400, "No file uploaded")
            /\ UNCHANGED contacts
       ELSE IF file.kind = "unsupported"
       THEN /\ res' = Respond("POST /api/contacts/upload", 400, "Unsupported file format")
            /\ UNCHANGED contacts
       ELSE IF file.kind = "unreadable"
       THEN /\ res' = Respond("POST /api/contacts/upload", 500, "Failed to process file")
            /\ UNCHANGED contacts
       ELSE IF ContactsToCreate(file.data) = << >>
       THEN /\ res' = Respond("POST /api/contacts/upload", 400, "No valid contacts found in file")
            /\ UNCHANGED contacts
       ELSE \E outs \in [1..Len(ContactsToCreate(file.data)) -> Outcomes] :
              LET done == createContacts(contacts, ContactsToCreate(file.data), outs) IN
              /\ contacts' = done.cts
              /\ res' = Respond("POST /api/contacts/upload", 200, done.created)
    /\ UNCHANGED <<now, smsTasks, running, requested, writes, legacy>>

\* variant of the required-field test: content not tested
MissingField_NoContent(contactId, content, scheduledAt) ==
    contactId = NULL \/ scheduledAt = << >>

\* if (!contactId || !content || !scheduledAt)
MissingField(contactId, content, scheduledAt) ==
    contactId = NULL \/ content = EmptyText \/ scheduledAt = << >>

\* app.post("/api/schedules"); scheduledAt is << >> when the body names none
PostSchedules(deviceId, contactId, content, scheduledAt) ==
    /\ MacrotaskMayStart
    /\ IF MissingField(contactId, content, scheduledAt)
       THEN /\ res' = Respond("POST /api/schedules", 400,
                              "Contact, content, and schedule time required")
            /\ UNCHANGED <<smsTasks, requested, writes>>
       ELSE IF ExceedsWordLimit(content)
       THEN /\ res' = Respond("POST /api/schedules", 400, "Message cannot exceed 20 words")
            /\ UNCHANGED <<smsTasks, requested, writes>>
       ELSE LET task == [deviceId |-> deviceId, contactId |-> contactId, content |-> content,
                         scheduledAt |-> scheduledAt[1], status |-> "pending"]
            IN \E outcome \in Outcomes :
                 IF outcome = OK /\ ForeignKeysHold(task, contacts)
                 THEN /\ Len(smsTasks) < MaxTasks
                      /\ smsTasks' = createSmsTask(smsTasks, task)
                      /\ requested' = Append(requested, scheduledAt[1])
                      /\ writes' = Append(writes, 0)
                      /\ res' = Respond("POST /api/schedules", 200, NewTaskId(smsTasks))
                 ELSE /\ res' = Respond("POST /api/schedules", 500, "Failed to create schedule")
                      /\ UNCHANGED <<smsTasks, requested, writes>>
    /\ UNCHANGED <<now, contacts, running, legacy>>

\* app.get("/api/stats")
GetStats ==
    /\ MacrotaskMayStart
    /\ \E outcome \in Outcomes :
         res' = IF outcome = OK
                THEN Respond("GET /api/stats", 200, getDashboardStats(smsTasks, contacts))
                ELSE Respond("GET /api/stats", 500, "Failed to fetch stats")
    /\ smsTasks' = AfterSelect(smsTasks)
    /\ UNCHANGED <<now, contacts, running, requested, writes, legacy>>

\* app.get("/api/schedules")
GetSchedules ==
    /\ MacrotaskMayStart
    /\ \E outcome \in Outcomes :
         res' = IF outcome = OK
                THEN Respond("GET /api/schedules", 200, getAllSmsTasks(smsTasks, contacts))
                ELSE Respond("GET /api/schedules", 500, "Failed to fetch schedules")
    /\ smsTasks' = AfterSelect(smsTasks)
    /\ UNCHANGED <<now, contacts, running, requested, writes, legacy>>

\* t.contact?.name || "", t.contact?.phoneNumber || ""
CellsOfContact(contact) ==
    IF contact = {} THEN <<"", "">>
    ELSE LET c == CHOOSE c \in contact : TRUE
         IN  <<IF c.name = NULL THEN "" ELSE c.name, c.phoneNumber>>

\* the cells of one task: id, contact name, phone, content, scheduledAt (the
\* Date of its whole second), status, error || ""
CsvRow(t) ==
    <<t.task.id>> \o CellsOfContact(t.contact)
        \o <<t.task.content, FromSeconds(t.task.scheduledAt), t.task.status,
             IF t.task.error = NULL THEN "" ELSE t.task.error>>

\* the header row followed by one row per task, in the order of getAllSmsTasks
CsvRows(tasks) ==
    <<<<"ID", "Contact", "Phone", "Content", "Scheduled At", "Status", "Error">>>>
        \o [k \in 1..Len(tasks) |-> CsvRow(tasks[k])]

\* app.get("/api/stats/export"); the body is kept as rows of cells
GetExport ==
    /\ MacrotaskMayStart
    /\ \E outcome \in Outcomes :
         res' = IF outcome = OK
                THEN Respond("GET /api/stats/export", 200,
                             CsvRows(getAllSmsTasks(smsTasks, contacts)))
                ELSE Respond("GET /api/stats/export", 500, "Failed to export report")
    /\ smsTasks' = AfterSelect(smsTasks)
    /\ UNCHANGED <<now, contacts, running, requested, writes, legacy>>

\* ------------------------------------------------------ background worker
\* variant: a property the error does not have is read (undefined)
ErrMessage_Lost(err) == NULL

\* err.message
ErrMessage(err) == err

\* one call of updateSmsTaskStatus by activation k for its j-th task, and the
\* await that follows it: the row is written, or the call throws and writes nothing
TryWrite(k, j, status, error, pc, outcome) ==
    LET id == running[k].pendingTasks[j].id IN
    /\ running' = [running EXCEPT ![k] = [@ EXCEPT !.i = j, !.pc = pc,
                       !.err = IF outcome = OK THEN NULL ELSE outcome]]
    /\ IF outcome = OK
       THEN /\ smsTasks' = updateSmsTaskStatus(smsTasks, id, status, error)
            /\ writes' = [writes EXCEPT ![id] = Bump(@)]
       ELSE UNCHANGED <<smsTasks, writes>>

\* the callback returns
Finish(k) ==
    /\ running' = Remove(running, k)
    /\ UNCHANGED <<smsTasks, writes>>

\* variant of the outer catch: the error is thrown on, the callback's promise
\* rejects with nothing to handle it and the process ends
OuterCatch_Rethrow(k) ==
    /\ running' = [running EXCEPT ![k] = [@ EXCEPT !.pc = "crashed"]]
    /\ UNCHANGED <<smsTasks, writes>>

\* } catch (error) { console.error("Cron error:", error); }
OuterCatch(k) == Finish(k)

\* variant of the inner catch: no try around the write of sent, the error goes
\* straight to the outer catch
CatchBlock_Absent(k, outs) == OuterCatch(k)

\* catch (err) { await updateSmsTaskStatus(task.id, "failed", err.message)
CatchBlock(k, outs) ==
    \E outcome \in outs :
        TryWrite(k, running[k].i, "failed", ErrMessage(running[k].err), "awaitFailed", outcome)

\* variant of the loop body: the mocked send reports a failure of its own
BeginTask_MarksFailed(k, j, outs) ==
    IF j > Len(running[k].pendingTasks)
    THEN Finish(k)
    ELSE \E outcome \in outs :
            TryWrite(k, j, "failed", "not delivered", "awaitSent", outcome)

\* for (const task of pendingTasks) { try { await updateSmsTaskStatus(task.id, "sent")
BeginTask(k, j, outs) ==
    IF j > Len(running[k].pendingTasks)
    THEN Finish(k)
    ELSE \E outcome \in outs : TryWrite(k, j, "sent", NULL, "awaitSent", outcome)

\* cron.schedule("* * * * *", async () => { ... await getPendingSmsTasks()
TimerFire(outs) ==
    /\ MacrotaskMayStart
    /\ Len(running) < MaxOverlap
    /\ \E outcome \in outs :
         running' = Append(running,
             [pendingTasks |-> IF outcome = OK THEN getPendingSmsTasks(smsTasks, now) ELSE << >>,
              i |-> 0,
              pc |-> "awaitPending",
              err |-> IF outcome = OK THEN NULL ELSE outcome])
    /\ UNCHANGED <<now, smsTasks, contacts, res, requested, writes, legacy>>

\* variant of the loop: the list is taken from its end (while (pendingTasks.pop()))
ResumeSelected_LastFirst(k, outs) ==
    /\ running[k].pc = "awaitPending"
    /\ IF running[k].err # NULL \/ running[k].pendingTasks = << >>
       THEN OuterCatch(k)
       ELSE BeginTask(k, Len(running[k].pendingTasks), outs)
    /\ UNCHANGED <<now, contacts, res, requested, legacy>>

\* the await of getPendingSmsTasks settles: the loop starts, or the outer catch runs
ResumeSelected(k, outs) ==
    /\ running[k].pc = "awaitPending"
    /\ IF running[k].err # NULL THEN OuterCatch(k) ELSE BeginTask(k, 1, outs)
    /\ UNCHANGED <<now, contacts, res, requested, legacy>>

\* the await of updateSmsTaskStatus(task.id, "sent") settles: next task, or
\* catch (err) { await updateSmsTaskStatus(task.id, "failed", err.message)
ResumeSent(k, outs) ==
    /\ running[k].pc = "awaitSent"
    /\ IF running[k].err = NULL
       THEN BeginTask(k, running[k].i + 1, outs)
       ELSE CatchBlock(k, outs)
    /\ UNCHANGED <<now, contacts, res, requested, legacy>>

\* variant of the inner catch: an error of the write of failed is swallowed
\* there and the loop goes on to the next task
ResumeFailed_Continues(k, outs) ==
    /\ running[k].pc = "awaitFailed"
    /\ BeginTask(k, running[k].i + 1, outs)
    /\ UNCHANGED <<now, contacts, res, requested, legacy>>

\* the await of updateSmsTaskStatus(task.id, "failed", ...) settles: next task,
\* or the error leaves the loop for the outer catch
ResumeFailed(k, outs) ==
    /\ running[k].pc = "awaitFailed"
    /\ IF running[k].err = NULL
       THEN BeginTask(k, running[k].i + 1, outs)
       ELSE OuterCatch(k)
    /\ UNCHANGED <<now, contacts, res, requested, legacy>>

Resume(outs) ==
    \E k \in 1..Len(running) :
        ResumeSelected(k, outs) \/ ResumeSent(k, outs) \/ ResumeFailed(k, outs)

\* ------------------------------------------------------------ specification
DeviceInputs == {NULL, UnknownDeviceId}
ContactInputs == {ContactIds[1], NULL, UnknownContactId}
NameInputs == Names \cup {NULL}
\* an uploaded sheet: its rows' phone and name cells
Row(phone, name) == [phoneNumber |-> phone, name |-> name]
File(kind, data) == [kind |-> kind, data |-> data]
FileInputs ==
    {File("none", << >>), File("unsupported", << >>), File("unreadable", << >>),
     File("sheet", <<Row("12345", "Ann")>>),
     File("sheet", <<Row("+15550100000", "Ann")>>),
     File("sheet", <<Row(PaddedPhone, "Ann"), Row("+15550100000", "Ann")>>)}
ContentInputs == Contents \cup {EmptyText}
\* the instants a request names: the first of the clock, the first of the next
\* second, the last of the clock; or none
TimeInputs == {<<t>> : t \in {0, SubSec, MaxTime}} \cup {<< >>}
PhoneInputs == ValidPhones \cup InvalidPhones \cup {NULL}

Next ==
    \/ Advance
    \/ \E p \in PhoneInputs, n \in Names : PostContacts(p, n)
    \/ \E f \in FileInputs : PostContactsUpload(f)
    \/ \E d \in DeviceInputs, c \in ContactInputs, m \in ContentInputs, t \in TimeInputs :
         PostSchedules(d, c, m, t)
    \/ GetStats
    \/ GetSchedules
    \/ GetExport
    \/ TimerFire(Outcomes)
    \/ Resume(Outcomes)

Spec == Init /\ [][Next]_vars

\* a continuation of the worker in which a store write went through
WorkerWrites ==
    /\ \E k \in 1..Len(running) :
         ResumeSelected(k, {OK}) \/ ResumeSent(k, {OK}) \/ ResumeFailed(k, {OK})
    /\ smsTasks' # smsTasks

\* The timer fires every minute and suspended callbacks are continued; store
\* faults do not persist: again and again the query, and a write, go through.
SpecLive ==
    /\ Spec
    /\ WF_vars(Resume(Outcomes))
    /\ SF_vars(TimerFire({OK}))
    /\ SF_vars(WorkerWrites)

\* SpecLive with a wall clock that does not stand still
SpecLiveClock == SpecLive /\ WF_vars(Advance)

\* ------------------------------------------------------------ the contacts
\* The contact handlers on their own, with two numbers, requests with and
\* without a name and a sheet that names both numbers: they read and write
\* nothing but the contacts table.
ContactPhoneInputs == PhoneInputs \cup {OtherPhone}
ContactFileInputs ==
    FileInputs \cup {File("sheet", <<Row(OtherPhone, ""), Row(PaddedPhone, "Ann")>>)}

NextContacts ==
    \/ \E p \in ContactPhoneInputs, n \in NameInputs : PostContacts(p, n)
    \/ \E f \in ContactFileInputs : PostContactsUpload(f)
    \/ GetStats

SpecContacts == Init /\ [][NextContacts]_vars

\* ------------------------------------------------------------ legacy chat
\* The earlier routes.ts: chat messages that are held back for five minutes
\* and released by a timer of their own.  It shares nothing with the SMS
\* worker but the clock and the way the store keeps instants.

\* rows of the users table, and an id no row has
users == {"u1", "u2"}
UnknownUserId == "u9"

\* 5 * 60 * 1000 milliseconds, in instants
Delay == FromSeconds(DelaySeconds)

\* last instant of the clock of the legacy chat: a message has the time to fall due
LegacyMaxTime == FromSeconds(DelaySeconds + 2)

\* db.insert(messages).values({ ...message, status: "pending" }).returning().get()
\* at instant t: created_at defaults to the current second, scheduled_at is
\* stored in whole seconds
createMessage(tbl, message, t) ==
    Append(tbl, [id |-> Len(tbl) + 1,
                 senderId |-> message.senderId,
                 receiverId |-> message.receiverId,
                 content |-> message.content,
                 createdAt |-> ToSeconds(t),
                 scheduledAt |-> ToSeconds(message.scheduledAt),
                 status |-> "pending"])

\* variant of the release: every pending message, whatever its scheduledAt
Releasable_AnyTime(row, t) == row.status = "pending"

\* and(eq(messages.status, "pending"), lt(messages.scheduledAt, now))
Releasable(row, t) == row.status = "pending" /\ row.scheduledAt < ToSeconds(t)

\* db.update(messages).set({ status: "delivered" }).where(...).returning().all()
\* at instant t, and result.length
deliverScheduledMessages(tbl, t) ==
    [rows |-> [k \in 1..Len(tbl) |->
                  IF Releasable(tbl[k], t)
                  THEN [tbl[k] EXCEPT !.status = "delivered"]
                  ELSE tbl[k]],
     length |-> Cardinality({k \in 1..Len(tbl) : Releasable(tbl[k], t)})]

\* the wall clock of the legacy chat moves on
AdvanceLegacy ==
    /\ now < LegacyMaxTime
    /\ now' = now + 1
    /\ UNCHANGED <<smsTasks, contacts, running, res, requested, writes, legacy>>

\* app.post("/api/messages")
PostMessages(senderId, receiverId, content) ==
    /\ Len(messages) < MaxMessages
    /\ IF senderId = NULL \/ receiverId = NULL \/ content = ""
       THEN /\ res' = Respond("POST /api/messages", 400, "All fields are required")
            /\ UNCHANGED messages
       ELSE \E outcome \in Outcomes :
              LET message == [senderId |-> senderId, receiverId |-> receiverId,
                              content |-> content, scheduledAt |-> now + Delay]
                  created == createMessage(messages, message, now)
              IN  IF outcome = OK /\ {senderId, receiverId} \subseteq users
                  THEN /\ messages' = created
                       /\ res' = Respond("POST /api/messages", 200, created[Len(created)])
                  ELSE /\ res' = Respond("POST /api/messages", 500, "Failed to send message")
                       /\ UNCHANGED messages
    /\ UNCHANGED <<now, smsTasks, contacts, running, requested, writes, count>>

\* setInterval(async () => { try { const count = await deliverScheduledMessages()
\* ... } catch (error) { console.error(...) } }, 10000)
DeliverTick(outs) ==
    /\ \E outcome \in outs :
         IF outcome = OK
         THEN /\ messages' = deliverScheduledMessages(messages, now).rows
              /\ count' = deliverScheduledMessages(messages, now).length
         ELSE UNCHANGED <<messages, count>>
    /\ UNCHANGED <<now, smsTasks, contacts, running, res, requested, writes>>

UserInputs == {"u1", "u2", NULL, UnknownUserId}
TextInputs == {"hello", ""}

NextLegacy ==
    \/ AdvanceLegacy
    \/ \E s \in UserInputs, r \in UserInputs, c \in TextInputs : PostMessages(s, r, c)
    \/ DeliverTick(Outcomes)

SpecLegacy == Init /\ [][NextLegacy]_vars

\* ----------------------------------------------------------- properties
TaskIds == 1..Len(smsTasks)

Ids(rows) == {rows[j].id : j \in 1..Len(rows)}

Terminal(status) == status \in {"sent", "failed"}

\* an activation that has run its query and not yet entered the loop
JustSelected(a) == a.pc = "awaitPending" /\ a.err = NULL

\* the activation a step of TimerFire starts
Started == running'[Len(running')]

\* C1: the status of a task changes only from pending to sent or from pending
\* to failed; a task that is sent or failed keeps its status in every step.
C1_StatusEdges ==
    [][\A k \in TaskIds :
          smsTasks'[k].status # smsTasks[k].status
              => /\ smsTasks[k].status = "pending"
                 /\ Terminal(smsTasks'[k].status)]_vars

\* a tick has just run its query while one task is sent and another failed
C1_Witness ==
    /\ \E k \in TaskIds : smsTasks[k].status = "sent"
    /\ \E k \in TaskIds : smsTasks[k].status = "failed"
    /\ \E n \in 1..Len(running) : JustSelected(running[n])

\* C2: once a tick has written sent or failed for a task, no later run of the
\* due-task query returns that task.
C2_SelectedAtMostOnce ==
    [][TimerFire(Outcomes) => \A id \in Ids(Started.pendingTasks) : writes[id] = 0]_vars

\* a tick has just run its query, some task was written by an earlier tick and
\* a pending task is returned
C2_Witness ==
    /\ \E k \in TaskIds : writes[k] > 0
    /\ \E n \in 1..Len(running) :
         JustSelected(running[n]) /\ running[n].pendingTasks # << >>

C4_ErrorIffFailed ==
    \A k \in TaskIds :
        (smsTasks[k].error # NULL /\ smsTasks[k].error # "") <=> smsTasks[k].status = "failed"

\* one task failed with its reason recorded, another sent
C4_Witness ==
    /\ \E k \in TaskIds : smsTasks[k].status = "failed" /\ smsTasks[k].error \in FaultReasons
    /\ \E k \in TaskIds : smsTasks[k].status = "sent"

\* C5: a task is not returned by the due-task query, and does not leave
\* pending, at an instant before the scheduledAt its request named.
C5_NeverEarly ==
    /\ \A n \in 1..Len(running) :
         \A id \in Ids(running[n].pendingTasks) : requested[id] <= now
    /\ \A k \in TaskIds : smsTasks[k].status # "pending" => requested[k] <= now

\* a tick has just run its query and returned a task while leaving out a
\* pending task whose time is still ahead
C5_Witness ==
    \E n \in 1..Len(running) :
        /\ JustSelected(running[n])
        /\ running[n].pendingTasks # << >>
        /\ \E k \in TaskIds : smsTasks[k].status = "pending" /\ requested[k] > now

\* C6 as claimed: the query returns exactly the pending tasks with dueAt <= now.
C6_Claimed ==
    [][TimerFire({OK}) =>
          Ids(Started.pendingTasks) =
              {k \in TaskIds : smsTasks[k].status = "pending"
                               /\ FromSeconds(smsTasks[k].scheduledAt) <= now}]_vars

\* C6 amended: the query returns exactly the rows that are pending and whose
\* requested scheduledAt lies in a whole second before the second of now.
C6_DueStrictlyBefore ==
    [][TimerFire({OK}) =>
          /\ Ids(Started.pendingTasks) =
                 {k \in TaskIds : smsTasks[k].status = "pending"
                                  /\ ToSeconds(requested[k]) < ToSeconds(now)}
          /\ \A j \in 1..Len(Started.pendingTasks) :
                 Started.pendingTasks[j] = smsTasks[Started.pendingTasks[j].id]]_vars

\* a tick has just run its query: it returned a task and left out a pending
\* task whose dueAt is not after now
C6_Witness ==
    \E n \in 1..Len(running) :
        /\ JustSelected(running[n])
        /\ running[n].pendingTasks # << >>
        /\ \E k \in TaskIds :
             /\ smsTasks[k].status = "pending"
             /\ FromSeconds(smsTasks[k].scheduledAt) <= now
             /\ k \notin Ids(running[n].pendingTasks)

\* the task whose status the activation n has just attempted to write
Current(n) == running'[n].pendingTasks[running'[n].i].id

\* activation n makes a step in which its write of sent goes through
WritesSent(n) ==
    /\ ResumeSelected(n, {OK}) \/ ResumeSent(n, {OK}) \/ ResumeFailed(n, {OK})
    /\ Len(running') = Len(running)
    /\ running'[n].pc = "awaitSent"

\* C7 as claimed: every pending task whose dueAt has passed is selected by the
\* next tick.
C7_Claimed ==
    [][TimerFire({OK}) =>
          \A k \in TaskIds :
              smsTasks[k].status = "pending" /\ FromSeconds(smsTasks[k].scheduledAt) < now
                  => k \in Ids(Started.pendingTasks)]_vars

\* C7 amended: every pending task whose dueAt lies in a whole second before the
\* second of now is selected by the next tick, a write of sent that goes through
\* leaves it sent, and with a timer that keeps firing and store faults that do
\* not persist no such task stays pending forever.
C7_DueIsProcessed ==
    /\ [][TimerFire({OK}) =>
            \A k \in TaskIds :
                smsTasks[k].status = "pending"
                /\ FromSeconds(smsTasks[k].scheduledAt + 1) <= now
                    => k \in Ids(Started.pendingTasks)]_vars
    /\ [][\A n \in 1..Len(running) :
            WritesSent(n) => smsTasks'[Current(n)].status = "sent"]_vars
    /\ \A k \in 1..MaxTasks :
          (k \in TaskIds /\ smsTasks[k].status = "pending"
                         /\ smsTasks[k].scheduledAt < ToSeconds(now))
              ~> (k \in TaskIds /\ smsTasks[k].status # "pending")

\* a task requested for an instant before now has been sent, and no tick is
\* under way
C7_Witness ==
    /\ running = << >>
    /\ \E k \in TaskIds :
         smsTasks[k].status = "sent" /\ requested[k] < now /\ writes[k] = 1

\* activation n enters its catch block: the write of sent for its current task
\* threw, and the write of failed is attempted
Catches(n) ==
    /\ running[n].pc = "awaitSent"
    /\ running[n].err # NULL
    /\ ResumeSent(n, Outcomes)

\* C8 as claimed: when the send attempt for a task fails with reason r, the
\* task becomes failed with error = r.
C8_Claimed ==
    [][\A n \in 1..Len(running) :
          Catches(n) =>
              LET id == running[n].pendingTasks[running[n].i].id IN
              /\ smsTasks'[id].status = "failed"
              /\ smsTasks'[id].error = running[n].err]_vars

\* C8 amended: when the send attempt for a task fails with reason r and the
\* write of failed goes through, the task becomes failed with error = r; if that
\* write throws too the table is left as it was.  A failed task keeps its row
\* unchanged and is in no later query result.
C8_FailureRecorded ==
    /\ [][\A n \in 1..Len(running) :
            Catches(n) =>
                LET id == running[n].pendingTasks[running[n].i].id IN
                IF running'[n].err = NULL
                THEN /\ smsTasks'[id].status = "failed"
                     /\ smsTasks'[id].error = running[n].err
                ELSE smsTasks' = smsTasks]_vars
    /\ [][\A k \in TaskIds :
            smsTasks[k].status = "failed" => smsTasks'[k] = smsTasks[k]]_vars
    /\ [][TimerFire(Outcomes) =>
            \A k \in TaskIds :
                smsTasks[k].status = "failed" => k \notin Ids(Started.pendingTasks)]_vars

\* a task failed with its reason, its time long past, and a later tick has
\* just run its query without returning it
C8_Witness ==
    \E k \in TaskIds :
        /\ smsTasks[k].status = "failed"
        /\ smsTasks[k].error \in FaultReasons
        /\ smsTasks[k].scheduledAt < ToSeconds(now)
        /\ \E n \in 1..Len(running) :
             JustSelected(running[n]) /\ k \notin Ids(running[n].pendingTasks)

AddsUp(stats) ==
    stats.totalSmsScheduled = stats.totalSent + stats.totalFailed + stats.totalPending

\* C9: the counts of getDashboardStats satisfy totalSmsScheduled = totalSent +
\* totalFailed + totalPending, in every state and in every stats response.
C9_StatsAddUp ==
    /\ AddsUp(getDashboardStats(smsTasks, contacts))
    /\ (res.route = "GET /api/stats" /\ res.status = 200) => AddsUp(res.body)

\* a stats response that counts a sent task and a failed task
C9_Witness ==
    /\ res.route = "GET /api/stats"
    /\ res.status = 200
    /\ res.body.totalSent >= 1
    /\ res.body.totalFailed >= 1

\* a step that answers a create request: only such a step can be a step of
\* PostSchedules, which leaves the clock, the contacts and the worker alone
AnswersCreate ==
    /\ res'.route = "POST /api/schedules"
    /\ UNCHANGED <<now, contacts, running>>

\* C10: a create request whose content has more than 20 words is answered 400
\* and leaves the task table unchanged; no row ever holds such a content.
\* (First conjunct, read contrapositively: a step that answers anything but 400,
\* or that changes the table, is not the handling of such a request.)
C10_TooLongRejected ==
    /\ [][(AnswersCreate /\ (res'.status # 400 \/ smsTasks' # smsTasks)) =>
            \A m \in {x \in ContentInputs : x.words > WordLimit} :
                \A d \in DeviceInputs, c \in ContactInputs, t \in TimeInputs :
                    ~PostSchedules(d, c, m, t)]_vars
    /\ [][\A k \in 1..Len(smsTasks') : smsTasks'[k].content.words <= WordLimit]_vars

\* the word-limit rejection has been answered while the table holds a task
C10_Witness ==
    /\ res.route = "POST /api/schedules"
    /\ res.status = 400
    /\ res.body = "Message cannot exceed 20 words"
    /\ smsTasks # << >>

\* C11: two tasks whose requests named the same dueAt are both sent or failed in
\* the end once that instant has passed (and the clock can still reach a later
\* second), and a tick never prefers one of them: while both are pending the
\* query of a tick returns both or neither.
C11_BothProcessed ==
    /\ [][TimerFire({OK}) =>
            \A j \in TaskIds, k \in TaskIds :
                (/\ requested[j] = requested[k]
                 /\ smsTasks[j].status = "pending"
                 /\ smsTasks[k].status = "pending")
                    => (j \in Ids(Started.pendingTasks) <=> k \in Ids(Started.pendingTasks))]_vars
    /\ \A j \in 1..MaxTasks, k \in 1..MaxTasks :
          (IF j < k /\ k \in TaskIds
           THEN /\ requested[j] = requested[k]
                /\ requested[j] < now
                /\ ToSeconds(requested[j]) < ToSeconds(MaxTime)
           ELSE FALSE)
              ~> (IF j < k /\ k \in TaskIds
                  THEN Terminal(smsTasks[j].status) /\ Terminal(smsTasks[k].status)
                  ELSE FALSE)

\* two tasks requested for the same instant have both been written, one of them
\* failed, and no tick is under way
C11_Witness ==
    /\ running = << >>
    /\ \E j \in TaskIds, k \in TaskIds :
         /\ j < k
         /\ requested[j] = requested[k]
         /\ smsTasks[j].status = "failed"
         /\ Terminal(smsTasks[k].status)

\* activation n holds a store error that no inner catch takes: the query threw,
\* or the write of failed threw inside the inner catch
TickFaulted(n) ==
    /\ running[n].err # NULL
    /\ running[n].pc \in {"awaitPending", "awaitFailed"}

\* C12: a store error a tick meets ends that tick and nothing else: the callback
\* returns without a write, no activation is ever left dead, a later tick runs
\* its query, and a task that is due while the error is handled is written in
\* the end.
C12_LoopSurvives ==
    /\ [][\A n \in 1..Len(running) :
            TickFaulted(n) /\ (ResumeSelected(n, Outcomes) \/ ResumeFailed(n, Outcomes))
                => /\ running' = Remove(running, n)
                   /\ smsTasks' = smsTasks]_vars
    /\ [](\A n \in 1..Len(running) :
            running[n].pc \in {"awaitPending", "awaitSent", "awaitFailed"})
    /\ (\E n \in 1..Len(running) : TickFaulted(n))
          ~> (\E n \in 1..Len(running) : JustSelected(running[n]))
    /\ \A k \in 1..MaxTasks :
          (IF k \in TaskIds
           THEN /\ \E n \in 1..Len(running) : TickFaulted(n)
                /\ smsTasks[k].status = "pending"
                /\ smsTasks[k].scheduledAt < ToSeconds(now)
           ELSE FALSE)
              ~> (IF k \in TaskIds THEN Terminal(smsTasks[k].status) ELSE FALSE)

\* the query of a tick has thrown while a due task is pending and another task
\* was written by an earlier tick
C12_Witness ==
    /\ \E n \in 1..Len(running) : TickFaulted(n) /\ running[n].pc = "awaitPending"
    /\ \E k \in TaskIds :
         smsTasks[k].status = "pending" /\ smsTasks[k].scheduledAt < ToSeconds(now)
    /\ \E k \in TaskIds : smsTasks[k].status = "sent"

\* C13 as claimed: an error of the send attempt leaves the task failed with a
\* reason and never leaves the loop: when the inner catch is done the task is
\* failed and, if the tick has tasks left, the next one is attempted.
C13_Claimed ==
    [][\A n \in 1..Len(running) :
          ResumeFailed(n, Outcomes) =>
              LET a == running[n]
                  id == a.pendingTasks[a.i].id
              IN /\ smsTasks[id].status = "failed"
                 /\ smsTasks[id].error # NULL
                 /\ a.i < Len(a.pendingTasks) =>
                        /\ Len(running') = Len(running)
                        /\ running'[n].i = a.i + 1]_vars

\* C13 amended: an error of the send attempt is taken by the inner catch, which
\* writes failed with the reason; when that write goes through the task is
\* failed and the tick goes on to its next task, or returns after the last.  If
\* the write of failed throws too, the error leaves the loop: the task stays
\* pending, the tick ends there and its remaining tasks are not attempted.
C13_FaultContained ==
    /\ [][\A n \in 1..Len(running) :
            Catches(n) =>
                LET id == running[n].pendingTasks[running[n].i].id IN
                /\ Len(running') = Len(running)
                /\ running'[n].pc = "awaitFailed"
                /\ running'[n].i = running[n].i
                /\ running'[n].err = NULL =>
                       /\ smsTasks'[id].status = "failed"
                       /\ smsTasks'[id].error = running[n].err]_vars
    /\ [][\A n \in 1..Len(running) :
            ResumeFailed(n, Outcomes) =>
                LET a == running[n]
                    id == a.pendingTasks[a.i].id
                IN IF a.err = NULL
                   THEN /\ smsTasks[id].status = "failed"
                        /\ smsTasks[id].error # NULL
                        /\ IF a.i < Len(a.pendingTasks)
                           THEN /\ Len(running') = Len(running)
                                /\ running'[n].i = a.i + 1
                                /\ running'[n].pc = "awaitSent"
                           ELSE running' = Remove(running, n)
                   ELSE /\ smsTasks[id].status = "pending"
                        /\ smsTasks' = smsTasks
                        /\ running' = Remove(running, n)]_vars

\* the first task of a tick failed and the tick is at the write of sent for its
\* second task
C13_Witness ==
    \E n \in 1..Len(running) :
        /\ running[n].pc = "awaitSent"
        /\ running[n].i = 2
        /\ smsTasks[running[n].pendingTasks[1].id].status = "failed"

\* activation n leaves the executor of its current task: the write of sent went
\* through, or the inner catch is done
ExecutorDone(n) ==
    \/ running[n].pc = "awaitSent" /\ running[n].err = NULL /\ ResumeSent(n, Outcomes)
    \/ ResumeFailed(n, Outcomes)

\* C14 as claimed: every run of the executor for a task makes exactly one
\* status write.
C14_Claimed ==
    [][\A n \in 1..Len(running) :
          ExecutorDone(n) => writes[running[n].pendingTasks[running[n].i].id] = 1]_vars

\* C14 amended: a run of the executor for a task makes one status write, or
\* none when the write of sent and the write of failed both throw; over all
\* ticks at most one write goes through for a task id, and it has for exactly
\* the tasks that are sent or failed; within a tick no task is attempted twice.
C14_AtMostOneWrite ==
    /\ [][\A n \in 1..Len(running) :
            ExecutorDone(n) =>
                writes[running[n].pendingTasks[running[n].i].id]
                    = IF running[n].err = NULL THEN 1 ELSE 0]_vars
    /\ [](\A k \in TaskIds : /\ writes[k] <= 1
                             /\ writes[k] = 1 <=> Terminal(smsTasks[k].status))
    /\ [](\A n \in 1..Len(running) :
            \A i \in 1..Len(running[n].pendingTasks), j \in 1..Len(running[n].pendingTasks) :
                running[n].pendingTasks[i].id = running[n].pendingTasks[j].id => i = j)
    /\ [][\A n \in 1..Len(running) :
            Len(running') = Len(running) =>
                /\ running'[n].pendingTasks = running[n].pendingTasks
                /\ running'[n].i = IF running'[n] # running[n] /\ running'[n].pc = "awaitSent"
                                   THEN running[n].i + 1 ELSE running[n].i]_vars

\* both writes for the current task of a tick have thrown, none went through
\* for it, and one write went through for another task
C14_Witness ==
    \E n \in 1..Len(running) :
        /\ running[n].pc = "awaitFailed"
        /\ running[n].err # NULL
        /\ writes[running[n].pendingTasks[running[n].i].id] = 0
        /\ \E k \in TaskIds : writes[k] = 1

\* the contactId values of requests that name no stored contact
Unresolved == {c \in ContactInputs : c \notin {x.id : x \in contacts}}

C16_CreatedPending ==
    [][/\ Len(smsTasks') # Len(smsTasks) =>
            LET new == smsTasks'[Len(smsTasks')] IN
            /\ Len(smsTasks') = Len(smsTasks) + 1
            /\ SubSeq(smsTasks', 1, Len(smsTasks)) = smsTasks
            /\ new.status = "pending"
            /\ new.error = NULL
            /\ new.id \notin Ids(smsTasks)
            /\ res' = Respond("POST /api/schedules", 200, new.id)
       /\ \A j \in 1..Len(smsTasks'), k \in 1..Len(smsTasks') :
            smsTasks'[j].id = smsTasks'[k].id => j = k]_vars

\* a second task has just been created, pending, while the first is already
\* sent
C16_Witness ==
    /\ Len(smsTasks) = 2
    /\ smsTasks[1].status = "sent"
    /\ smsTasks[2].status = "pending" /\ smsTasks[2].error = NULL
    /\ smsTasks[2].id # smsTasks[1].id
    /\ res = Respond("POST /api/schedules", 200, smsTasks[2].id)

\* C17: a create request that lacks contactId, content or scheduledAt is
\* answered 400 "Contact, content, and schedule time required" in the step that
\* takes it, and the task table is unchanged by that step.
\* (Read contrapositively: a step that answers otherwise, or that changes the
\* table, is not the handling of such a request.)
C17_MissingFieldRejected ==
    [][(/\ AnswersCreate
        /\ \/ res' # Respond("POST /api/schedules", 400,
                             "Contact, content, and schedule time required")
           \/ smsTasks' # smsTasks) =>
          \A c \in ContactInputs, m \in ContentInputs, t \in TimeInputs :
              (c = NULL \/ m = EmptyText \/ t = << >>) =>
                  \A d \in DeviceInputs : ~PostSchedules(d, c, m, t)]_vars

\* the missing-field rejection has been answered while the table holds a
\* pending task
C17_Witness ==
    /\ res = Respond("POST /api/schedules", 400, "Contact, content, and schedule time required")
    /\ \E k \in TaskIds : smsTasks[k].status = "pending"

\* the columns of a task no update names
FixedColumns == {"id", "contactId", "deviceId", "content", "scheduledAt", "createdAt"}

\* C18: updateSmsTaskStatus(id, ...) applied to the table of any reachable state
\* keeps every row in place, changes nothing but status and error of the row
\* with that id, and nothing at all for an id no row has; in every step each
\* task keeps its id, contactId, deviceId, content, scheduledAt and createdAt,
\* and a row changes only as the current task of a tick.
C18_UpdateFrame ==
    /\ [](\A id \in 1..(MaxTasks + 1), status \in {"sent", "failed"},
             error \in {NULL} \cup FaultReasons :
            LET tbl == updateSmsTaskStatus(smsTasks, id, status, error) IN
            /\ Len(tbl) = Len(smsTasks)
            /\ \A k \in TaskIds :
                 /\ \A col \in FixedColumns : tbl[k][col] = smsTasks[k][col]
                 /\ smsTasks[k].id # id => tbl[k] = smsTasks[k])
    /\ [][\A k \in TaskIds :
            /\ k <= Len(smsTasks')
            /\ \A col \in FixedColumns : smsTasks'[k][col] = smsTasks[k][col]
            /\ smsTasks'[k] # smsTasks[k] =>
                   \E n \in 1..Len(running') :
                       /\ running'[n].i \in 1..Len(running'[n].pendingTasks)
                       /\ Current(n) = k]_vars

\* of two tasks with different scheduledAt one has been written failed and the
\* other is still pending
C18_Witness ==
    \E j \in TaskIds, k \in TaskIds :
        /\ smsTasks[j].status = "failed"
        /\ smsTasks[k].status = "pending"
        /\ smsTasks[j].scheduledAt # smsTasks[k].scheduledAt
        /\ smsTasks[j].createdAt # smsTasks[k].createdAt

\* status: pending, sent, failed
Statuses == {"pending", "sent", "failed"}

\* C19: the status of every stored task, and of every row a tick has read, is
\* pending, sent or failed.
C19_StatusDomain ==
    /\ \A k \in TaskIds : smsTasks[k].status \in Statuses
    /\ \A n \in 1..Len(running) :
         \A j \in 1..Len(running[n].pendingTasks) :
             running[n].pendingTasks[j].status \in Statuses

\* no tick is under way, one task is sent and another still pending
C19_Witness ==
    /\ running = << >>
    /\ \E j \in TaskIds, k \in TaskIds :
         smsTasks[j].status = "sent" /\ smsTasks[k].status = "pending"

\* C20: no step removes a task: every row of the table is at the same place
\* with the same id after the step, so the set of task ids only grows.
C20_NeverDeleted ==
    [][/\ Len(smsTasks') >= Len(smsTasks)
       /\ \A k \in TaskIds : smsTasks'[k].id = smsTasks[k].id
       /\ Ids(smsTasks) \subseteq Ids(smsTasks')]_vars

\* the table is full, every task in it has been sent or failed, no tick is
\* under way and the statistics just read count them all
C20_Witness ==
    /\ Len(smsTasks) = MaxTasks
    /\ \A k \in TaskIds : Terminal(smsTasks[k].status)
    /\ running = << >>
    /\ res.route = "GET /api/stats"
    /\ res.status = 200
    /\ res.body.totalSmsScheduled = MaxTasks

Holding(status) == Cardinality({k \in 1..Len(smsTasks') : smsTasks'[k].status = status})

\* C22: the answer of a stats request counts the tables as they are when the
\* request is handled: the tasks of each status, all tasks, all contacts;
\* whatever was created or written before the request is in the counts.
C22_StatsAreCurrent ==
    [][(GetStats /\ res'.status = 200) =>
          /\ res'.body.totalPending = Holding("pending")
          /\ res'.body.totalSent = Holding("sent")
          /\ res'.body.totalFailed = Holding("failed")
          /\ res'.body.totalSmsScheduled = Len(smsTasks')
          /\ res'.body.totalContacts = Cardinality(contacts')]_vars

\* the statistics just read count a failed task and a pending task whose time
\* is still ahead, and agree with the table
C22_Witness ==
    /\ res.route = "GET /api/stats"
    /\ res.status = 200
    /\ res.body.totalPending = 1
    /\ res.body.totalFailed = 1
    /\ \E k \in TaskIds : smsTasks[k].status = "pending" /\ requested[k] > now
    /\ \E k \in TaskIds : smsTasks[k].status = "failed"


Remaining(n) ==
    {running[n].pendingTasks[j].id : j \in running[n].i..Len(running[n].pendingTasks)}

\* activation n has seen the write of sent and the write of failed both throw
BothWritesRaised(n) == running[n].pc = "awaitFailed" /\ running[n].err # NULL

\* C27: when the write of sent and the write of failed both raise, the tick
\* stops at that task.  The task and the tasks of the list that were not yet
\* reached are pending with no error and were never written; the step that
\* handles the second error ends the tick and changes no task; the query of a
\* tick starting then returns every one of them; and a tick that starts later
\* does select each of them again.
C27_DoubleFaultStopsTick ==
    /\ [](\A n \in 1..Len(running) :
            BothWritesRaised(n) =>
                \A k \in Remaining(n) :
                    /\ smsTasks[k].status = "pending"
                    /\ smsTasks[k].error = NULL
                    /\ writes[k] = 0)
    /\ [][\A n \in 1..Len(running) :
            (BothWritesRaised(n) /\ running' # running) =>
                /\ running' = Remove(running, n)
                /\ smsTasks' = smsTasks
                /\ Remaining(n) \subseteq Ids(getPendingSmsTasks(smsTasks', now'))]_vars
    /\ \A k \in 1..MaxTasks :
          (IF k \in TaskIds
           THEN \E n \in 1..Len(running) : BothWritesRaised(n) /\ k \in Remaining(n)
           ELSE FALSE)
              ~> (IF k \in TaskIds
                  THEN \E n \in 1..Len(running) :
                          JustSelected(running[n]) /\ k \in Ids(running[n].pendingTasks)
                  ELSE FALSE)

\* both writes for the first of two selected tasks have thrown; the second
\* task has not been reached
C27_Witness ==
    \E n \in 1..Len(running) :
        /\ BothWritesRaised(n)
        /\ running[n].i = 1
        /\ Len(running[n].pendingTasks) = 2
        /\ Cardinality(Remaining(n)) = 2

\* C28: failed is written only after the write of sent for the same task has
\* raised.  A task turns failed only in the step of an activation that holds
\* it and has just seen its write of sent throw, and its error is then that
\* error's message; an attempt whose write of sent does not raise leaves the
\* task sent with no error; and the tasks a tick has passed are all sent
\* unless a write raised for them.
C28_FailedOnlyAfterRaise ==
    /\ [][\A k \in TaskIds :
            (smsTasks'[k].status = "failed" /\ smsTasks[k].status # "failed") =>
                \E n \in 1..Len(running) :
                    /\ running[n].pc = "awaitSent"
                    /\ running[n].err # NULL
                    /\ running[n].pendingTasks[running[n].i].id = k
                    /\ smsTasks'[k].error = running[n].err]_vars
    /\ [][\A n \in 1..Len(running') :
            (/\ n <= Len(running)
             /\ running'[n] # running[n]
             /\ running'[n].pc = "awaitSent"
             /\ running'[n].err = NULL) =>
                /\ smsTasks'[Current(n)].status = "sent"
                /\ smsTasks'[Current(n)].error = NULL]_vars
    /\ [](\A n \in 1..Len(running) :
            \A j \in 1..Len(running[n].pendingTasks) :
                (j < running[n].i) =>
                    /\ Terminal(smsTasks[running[n].pendingTasks[j].id].status)
                    /\ smsTasks[running[n].pendingTasks[j].id].status = "failed" =>
                           smsTasks[running[n].pendingTasks[j].id].error \in FaultReasons)

\* one tick, two tasks: the write of sent raised for the first, which is
\* failed with the reason, and did not raise for the second, which is sent
C28_Witness ==
    \E n \in 1..Len(running) :
        /\ running[n].pc = "awaitSent"
        /\ running[n].err = NULL
        /\ running[n].i = 2
        /\ smsTasks[running[n].pendingTasks[1].id].status = "failed"
        /\ smsTasks[running[n].pendingTasks[1].id].error \in FaultReasons
        /\ smsTasks[running[n].pendingTasks[2].id].status = "sent"

\* C29: a tick handles the tasks of its list one after another, in the order
\* of the list.  An activation is at one position of its list; a step moves
\* it to the next position or leaves it where it is, and it moves on only
\* when the write for the task it holds has settled without an error left to
\* handle; the tasks before its position are written, those after it are
\* untouched, so at most one task is between attempt and outcome; and the
\* list is what the query returned, in that order.
C29_OneAfterAnother ==
    /\ [][\A n \in 1..Len(running) :
            Len(running') = Len(running) =>
                /\ running'[n].i \in {running[n].i, running[n].i + 1}
                /\ running'[n].i = running[n].i + 1 =>
                       /\ running[n].err = NULL
                       /\ running[n].i >= 1 =>
                              Terminal(smsTasks[running[n].pendingTasks[running[n].i].id].status)
                       /\ \A k \in TaskIds :
                              smsTasks'[k] # smsTasks[k] =>
                                  k = running[n].pendingTasks[running'[n].i].id]_vars
    /\ [][Len(running') > Len(running) =>
            /\ Started.i = 0
            /\ Started.pendingTasks \in {getPendingSmsTasks(smsTasks, now), << >>}]_vars
    /\ [](\A n \in 1..Len(running) :
            /\ running[n].i \in 0..Len(running[n].pendingTasks)
            /\ \A j \in 1..Len(running[n].pendingTasks) :
                   /\ (j < running[n].i) => writes[running[n].pendingTasks[j].id] = 1
                   /\ (j > running[n].i) =>
                          /\ writes[running[n].pendingTasks[j].id] = 0
                          /\ smsTasks[running[n].pendingTasks[j].id].status = "pending")

\* the tick has finished with the first task of its list and holds the
\* second, whose write of sent has thrown: the second is the only task between
\* attempt and outcome
C29_Witness ==
    \E n \in 1..Len(running) :
        /\ running[n].pc = "awaitSent"
        /\ running[n].err # NULL
        /\ running[n].i = 2
        /\ writes[running[n].pendingTasks[1].id] = 1
        /\ smsTasks[running[n].pendingTasks[2].id].status = "pending"

MessageIds == 1..Len(messages)

\* C30: a chat message is created pending with scheduledAt five minutes after
\* its creation (the stored second of the instant of the request plus the
\* delay, which is createdAt plus the delay); a run of
\* deliverScheduledMessages turns to delivered exactly the messages that are
\* pending with scheduledAt before the current second, returns how many they
\* were and changes nothing else; a message turns delivered only when more
\* than the delay has passed since its creation; and a delivered message is
\* never changed again.
C30_LegacyDelivery ==
    /\ [][Len(messages') > Len(messages) =>
            LET m == messages'[Len(messages')] IN
            /\ Len(messages') = Len(messages) + 1
            /\ SubSeq(messages', 1, Len(messages)) = messages
            /\ m.status = "pending"
            /\ m.createdAt = ToSeconds(now)
            /\ m.scheduledAt = ToSeconds(now + Delay)
            /\ m.scheduledAt = m.createdAt + DelaySeconds]_vars
    /\ [][DeliverTick({OK}) =>
            LET due == {k \in MessageIds :
                          /\ messages[k].status = "pending"
                          /\ FromSeconds(messages[k].scheduledAt + 1) <= now}
            IN  /\ Len(messages') = Len(messages)
                /\ \A k \in due : messages'[k] = [messages[k] EXCEPT !.status = "delivered"]
                /\ \A k \in MessageIds \ due : messages'[k] = messages[k]
                /\ count' = Cardinality(due)]_vars
    /\ [][\A k \in MessageIds :
            /\ messages'[k].status # messages[k].status =>
                   /\ messages[k].status = "pending"
                   /\ messages'[k].status = "delivered"
                   /\ now > FromSeconds(messages[k].createdAt + 1) - 1 + Delay
            /\ messages[k].status = "delivered" => messages'[k] = messages[k]]_vars

\* a run has just released one message and left the other, which is pending
\* and not yet due, alone
C30_Witness ==
    /\ Len(messages) = 2
    /\ count = 1
    /\ messages[1].status = "delivered"
    /\ messages[2].status = "pending"
    /\ ~Releasable(messages[2], now)

=============================================================================
